---- MODULE Spec2Model ----
(***************************************************************************)
(* Shape and data-flow model of src/classifier.py: the layer graph built   *)
(* by each constructor and the forward pass through it.  A tensor is its   *)
(* shape together with the log of the operations executed so far; numeric  *)
(* element values are not represented.                                     *)
(***************************************************************************)
EXTENDS Integers, Sequences, FiniteSets, TLC

\* ---------------------------------------------------------------- bounds
MaxB == 2
MaxDim == 3
MaxCh == 3

Batches == 1..MaxB
Dims == (1..MaxDim) \cup {224}
ChanSet == (2..MaxCh) \cup {64, 128}
Cardinalities == {1, 32}
Strides == {1, 2}
GroupSet == {1, 2}
Ratios == {2, 16}

\* Python's None for an integer-valued optional argument.
None == -1

\* ---------------------------------------------------------------- tensors
\* trace: the operations executed so far, in program order.
\* adds : the operand shapes <<out, residual>> of every elementwise add.
Tensor(shape) ==
    [ok |-> TRUE, shape |-> shape, err |-> "none", trace |-> <<>>, adds |-> <<>>]

NoTensor ==
    [ok |-> FALSE, shape |-> <<>>, err |-> "absent", trace |-> <<>>, adds |-> <<>>]

Raise(t, e) == [t EXCEPT !.ok = FALSE, !.err = e]

Step(t, shape, name) ==
    [t EXCEPT !.shape = shape, !.trace = Append(t.trace, name)]

\* The tensor x as seen after the operations that produced `after` ran.
Carry(x, after) == [after EXCEPT !.shape = x.shape]

\* ---------------------------------------------------------------- layers
Layer(kind, a, b, k, s, p, g) ==
    [kind |-> kind, a |-> a, b |-> b, k |-> k, s |-> s, p |-> p, g |-> g]

Conv2d(cin, cout, k, stride, padding, groups) ==
    Layer("Conv2d", cin, cout, k, stride, padding, groups)
BatchNorm2d(n) == Layer("BatchNorm2d", n, n, 0, 0, 0, 0)
Linear(fin, fout) == Layer("Linear", fin, fout, 0, 0, 0, 0)
ReLU == Layer("ReLU", 0, 0, 0, 0, 0, 0)
Sigmoid == Layer("Sigmoid", 0, 0, 0, 0, 0, 0)
AdaptiveAvgPool2d == Layer("AdaptiveAvgPool2d", 0, 0, 0, 0, 0, 0)
Flatten == Layer("Flatten", 0, 0, 0, 0, 0, 0)

\* nn.Conv2d rejects channel counts that the groups do not divide.
ConvCtorOk(l) == l.g >= 1 /\ l.a % l.g = 0 /\ l.b % l.g = 0

ConvOut(h, k, s, p) == ((h + 2 * p - k) \div s) + 1

Numel(shape) ==
    LET RECURSIVE prod(_)
        prod(i) == IF i > Len(shape) THEN 1 ELSE shape[i] * prod(i + 1)
    IN prod(1)

ApplyLayer(l, t) ==
    IF ~t.ok THEN t
    ELSE CASE l.kind = "Conv2d" ->
              IF Len(t.shape) # 4 THEN Raise(t, "conv: expected 4D input")
              ELSE IF l.s < 1 THEN Raise(t, "conv: non-positive stride")
              ELSE IF t.shape[2] # l.a THEN Raise(t, "conv: channel mismatch")
              ELSE IF t.shape[3] + 2 * l.p < l.k \/ t.shape[4] + 2 * l.p < l.k
                   THEN Raise(t, "conv: kernel larger than input")
              ELSE Step(t, <<t.shape[1], l.b,
                             ConvOut(t.shape[3], l.k, l.s, l.p),
                             ConvOut(t.shape[4], l.k, l.s, l.p)>>, "Conv2d")
           [] l.kind = "BatchNorm2d" ->
              IF Len(t.shape) # 4 THEN Raise(t, "bn: expected 4D input")
              ELSE IF t.shape[2] # l.a THEN Raise(t, "bn: channel mismatch")
              ELSE Step(t, t.shape, "BatchNorm2d")
           [] l.kind = "Linear" ->
              IF t.shape[Len(t.shape)] # l.a THEN Raise(t, "linear: width mismatch")
              ELSE Step(t, [t.shape EXCEPT ![Len(t.shape)] = l.b], "Linear")
           [] l.kind = "AdaptiveAvgPool2d" ->
              IF Len(t.shape) # 4 THEN Raise(t, "pool: expected 4D input")
              ELSE Step(t, <<t.shape[1], t.shape[2], 1, 1>>, "AdaptiveAvgPool2d")
           [] l.kind = "Flatten" ->
              Step(t, <<t.shape[1], Numel(t.shape) \div t.shape[1]>>, "Flatten")
           [] l.kind = "ReLU" -> Step(t, t.shape, "ReLU")
           [] l.kind = "Sigmoid" -> Step(t, t.shape, "Sigmoid")

\* nn.Sequential.forward: the layers in order.
RECURSIVE ApplySeq(_, _)
ApplySeq(layers, t) ==
    IF layers = <<>> THEN t
    ELSE ApplySeq(Tail(layers), ApplyLayer(Head(layers), t))

\* b broadcasts to the shape of a (in-place add keeps a's shape).
BroadcastsTo(b, a) ==
    /\ Len(b) = Len(a)
    /\ \A i \in 1..Len(a) : b[i] = a[i] \/ b[i] = 1

\* out += residual
IAdd(out, residual) ==
    IF ~out.ok THEN out
    ELSE IF ~residual.ok THEN residual
    ELSE LET logged == [residual EXCEPT
                           !.shape = out.shape,
                           !.adds = Append(residual.adds, <<out.shape, residual.shape>>)]
         IN IF BroadcastsTo(residual.shape, out.shape)
            THEN Step(logged, out.shape, "+=")
            ELSE Raise(logged, "add: shape mismatch")

\* a * b, b being the later of the two values
Mul(a, b) ==
    IF ~a.ok THEN a
    ELSE IF ~b.ok THEN b
    ELSE IF BroadcastsTo(b.shape, a.shape)
         THEN Step(b, a.shape, "*")
         ELSE Raise(b, "mul: shape mismatch")

FRelu(t) == IF t.ok THEN Step(t, t.shape, "F.relu") ELSE t

\* ---------------------------------------------------------------- blocks
NoBlock == [kind |-> "None"]

\* BasicBlock with the stride argument not passed on to the first convolution.
BasicBlockStrideDropped(in_channels, out_channels, stride, groups) ==
    [kind |-> "BasicBlock",
     in_channels |-> in_channels,
     out_channels |-> out_channels,
     conv1 |-> <<Conv2d(in_channels, out_channels, 3, 1, 1, groups),
                 BatchNorm2d(out_channels), ReLU>>,
     conv2 |-> <<Conv2d(out_channels, out_channels, 3, 1, 1, groups),
                 BatchNorm2d(out_channels)>>,
     conv3 |-> <<>>]

BasicBlock(in_channels, out_channels, stride, groups) ==
    [kind |-> "BasicBlock",
     in_channels |-> in_channels,
     out_channels |-> out_channels,
     conv1 |-> <<Conv2d(in_channels, out_channels, 3, stride, 1, groups),
                 BatchNorm2d(out_channels), ReLU>>,
     conv2 |-> <<Conv2d(out_channels, out_channels, 3, 1, 1, groups),
                 BatchNorm2d(out_channels)>>,
     conv3 |-> <<>>]

BottleneckBlock(in_channels, out_channels, stride, groups, mid_channels) ==
    LET mid == IF mid_channels = None THEN in_channels \div 2 ELSE mid_channels
    IN [kind |-> "BottleneckBlock",
        in_channels |-> in_channels,
        out_channels |-> out_channels,
        conv1 |-> <<Conv2d(in_channels, mid, 1, 1, 0, 1),
                    BatchNorm2d(out_channels), ReLU>>,
        conv2 |-> <<Conv2d(mid, mid, 3, stride, 1, groups),
                    BatchNorm2d(mid), ReLU>>,
        conv3 |-> <<Conv2d(mid, out_channels, 1, 1, 0, 1),
                    BatchNorm2d(out_channels)>>]

\* BasicBlock.forward / BottleneckBlock.forward: conv1, conv2 (, conv3).
BlockForward(b, X) ==
    ApplySeq(b.conv3, ApplySeq(b.conv2, ApplySeq(b.conv1, X)))

BlockLayers(b) == b.conv1 \o b.conv2 \o b.conv3

\* Every convolution of a layer list can be constructed.
LayersCtorOk(layers) ==
    \A i \in 1..Len(layers) :
        layers[i].kind = "Conv2d" => ConvCtorOk(layers[i])

\* stride = 2 for every block, also a width-preserving one.
StrideRuleAlwaysTwo(in_channels, out_channels) == 2

StrideRule(in_channels, out_channels) ==
    IF in_channels # out_channels THEN 2 ELSE 1

ResidualBlock(in_channels, out_channels, block) ==
    LET stride == StrideRule(in_channels, out_channels)
    IN [kind |-> "ResidualBlock",
        in_channels |-> in_channels,
        out_channels |-> out_channels,
        has_downsample |-> stride # 1,
        downsample |-> IF stride # 1
                       THEN <<Conv2d(in_channels, out_channels, 1, stride, 0, 1),
                              BatchNorm2d(out_channels)>>
                       ELSE <<>>,
        block |-> IF block.kind = "None"
                  THEN BasicBlock(in_channels, out_channels, stride, 1)
                  ELSE block]

ResNeXtBlock(in_channels, out_channels, cardinality) ==
    [ResidualBlock(in_channels, out_channels,
                   BottleneckBlock(in_channels, out_channels,
                                   in_channels \div out_channels,
                                   cardinality,
                                   in_channels \div 2))
     EXCEPT !.kind = "ResNeXtBlock"]

\* `if self.downsample:` - None is falsy, a Sequential is truthy when non-empty.
Truthy(m) == m.has_downsample /\ Len(m.downsample) > 0

\* ResidualBlock.forward, and its copy ResNeXtBlock.forward.
ResidualForward(m, x) ==
    LET out == BlockForward(m.block, Step(x, x.shape, "block.forward"))
        residual == IF Truthy(m)
                    THEN ApplySeq(m.downsample,
                                  Step(Carry(x, out), x.shape, "downsample"))
                    ELSE Carry(x, out)
    IN IF ~out.ok THEN out ELSE FRelu(IAdd(out, residual))

\* ---------------------------------------------------------------- squeeze-excitation
SqueezeExcitationBlock(in_channels, reduction_ratio) ==
    LET reduced_channel_size == in_channels \div reduction_ratio
    IN [kind |-> "SqueezeExcitationBlock",
        reduced_channel_size |-> reduced_channel_size,
        block |-> <<AdaptiveAvgPool2d, Flatten,
                    Linear(in_channels, reduced_channel_size), ReLU,
                    Linear(reduced_channel_size, in_channels), Sigmoid>>]

\* SqueezeExcitationBlock.forward: self.block, then view(batch, channels, 1, 1).
SEForward(m, X) ==
    IF ~X.ok THEN X
    ELSE IF Len(X.shape) # 4 THEN Raise(X, "se: expected 4D input")
    ELSE LET g == ApplySeq(m.block, Step(X, X.shape, "se_block.forward"))
             target == <<X.shape[1], X.shape[2], 1, 1>>
         IN IF ~g.ok THEN g
            ELSE IF Numel(g.shape) # Numel(target) THEN Raise(g, "view: size mismatch")
            ELSE Step(g, target, "view")

SE_ResModule(block, reduction_ratio) ==
    [kind |-> "SE_ResModule",
     block |-> block,
     se_block |-> SqueezeExcitationBlock(block.out_channels, reduction_ratio)]

\* SE_ResModule.forward
SEResForward(m, X) ==
    LET res_out == ResidualForward(m.block, X)
        se_out == SEForward(m.se_block, res_out)
        out == Mul(res_out, se_out)
        residual == IF m.block.has_downsample
                    THEN ApplySeq(m.block.downsample,
                                  Step(Carry(X, out), X.shape, "downsample"))
                    ELSE Carry(X, out)
    IN IF ~out.ok THEN out ELSE FRelu(IAdd(out, residual))

\* ---------------------------------------------------------------- backends
Sequential(stages) == [kind |-> "Sequential", stages |-> stages]

DefaultRatio == 16
DefaultCardinality == 32

backends_resnet ==
    Sequential(<<Conv2d(3, 3, 1, 1, 0, 1),
                 ResidualBlock(3, 64, NoBlock),
                 ResidualBlock(64, 128, NoBlock),
                 ResidualBlock(128, 256, NoBlock),
                 ResidualBlock(256, 256, NoBlock),
                 ResidualBlock(256, 512, NoBlock)>>)

backends_se_resnet ==
    Sequential(<<Conv2d(3, 3, 1, 1, 0, 1),
                 SE_ResModule(ResidualBlock(3, 64, NoBlock), DefaultRatio),
                 SE_ResModule(ResidualBlock(64, 128, NoBlock), DefaultRatio),
                 SE_ResModule(ResidualBlock(128, 256, NoBlock), DefaultRatio),
                 SE_ResModule(ResidualBlock(256, 256, NoBlock), DefaultRatio),
                 SE_ResModule(ResidualBlock(256, 512, NoBlock), DefaultRatio)>>)

backends_se_resneXt ==
    Sequential(<<Conv2d(3, 3, 1, 1, 0, 1),
                 SE_ResModule(ResNeXtBlock(3, 64, 1), DefaultRatio),
                 SE_ResModule(ResNeXtBlock(64, 128, DefaultCardinality), DefaultRatio),
                 SE_ResModule(ResNeXtBlock(128, 256, DefaultCardinality), DefaultRatio),
                 SE_ResModule(ResNeXtBlock(256, 256, DefaultCardinality), DefaultRatio),
                 SE_ResModule(ResNeXtBlock(256, 512, DefaultCardinality), DefaultRatio)>>)

\* The attributes of class backends.
BackendNames == {"resnet", "se_resnet", "se_resneXt"}

backends(name) ==
    CASE name = "resnet" -> backends_resnet
      [] name = "se_resnet" -> backends_se_resnet
      [] name = "se_resneXt" -> backends_se_resneXt

StageForward(stage, t) ==
    CASE stage.kind = "ResidualBlock" -> ResidualForward(stage, t)
      [] stage.kind = "ResNeXtBlock" -> ResidualForward(stage, t)
      [] stage.kind = "SE_ResModule" -> SEResForward(stage, t)
      [] OTHER -> ApplyLayer(stage, t)

RECURSIVE SequentialForward(_, _)
SequentialForward(stages, t) ==
    IF stages = <<>> \/ ~t.ok THEN t
    ELSE SequentialForward(Tail(stages), StageForward(Head(stages), t))

\* ---------------------------------------------------------------- classifier
\* The decoder with the third linear layer reading 256 features instead of 128.
DecoderWidthSlip ==
    <<AdaptiveAvgPool2d, Flatten,
      Linear(512, 256), ReLU,
      Linear(256, 128), ReLU,
      Linear(256, 64), ReLU,
      Linear(64, 32), ReLU,
      Linear(32, 1), Sigmoid>>

Decoder ==
    <<AdaptiveAvgPool2d, Flatten,
      Linear(512, 256), ReLU,
      Linear(256, 128), ReLU,
      Linear(128, 64), ReLU,
      Linear(64, 32), ReLU,
      Linear(32, 1), Sigmoid>>

\* The attribute object_classifier.__init__ reads when no encoder is passed.
DefaultEncoderAttr == "encoder_se_resnet"

ObjectClassifier(encoder) ==
    [kind |-> "object_classifier", encoder |-> encoder, decoder |-> Decoder]

encode(m, X) == SequentialForward(backends(m.encoder).stages, Step(X, X.shape, "encode"))
decode(m, X) == ApplySeq(m.decoder, IF X.ok THEN Step(X, X.shape, "decode") ELSE X)

\* ---------------------------------------------------------------- state
VARIABLES
    mod,      \* the module the program has built ([kind |-> "None"] when none)
    op,       \* the last operation called ("start" before any)
    args,     \* its integer arguments
    sargs,    \* its string arguments (encoder, decoderFile)
    exc,      \* the exception it raised, "none" when it returned
    events,   \* what object_classifier.__init__ did to the parameters, in order
    inp,      \* the input of the last forward call
    feat,     \* object_classifier: the value of encode(X) in the last forward
    out       \* the result of the last forward call

vars == <<mod, op, args, sargs, exc, events, inp, feat, out>>

NoModule == [kind |-> "None"]

\* What nn.Linear does with a zero-width weight when its parameters are
\* initialised depends on the installed torch: newer releases skip the
\* initialisation, older ones divide by the zero fan-in.
ZeroWidthOutcomes == {"none", "ZeroDivisionError"}

\* The exceptions constructing the linear layers of a squeeze-excitation block
\* can end in: none unless the hidden width is zero.
SECtorOutcomes(se) ==
    IF se.reduced_channel_size = 0 THEN ZeroWidthOutcomes ELSE {"none"}

\* Decoder weight files and what loading each one does.
DecoderFiles == {"good.pth", "missing.pth", "incompatible.pth"}

LoadOutcome(file) ==
    CASE file = "good.pth" -> "none"
      [] file = "missing.pth" -> "FileNotFoundError"
      [] file = "incompatible.pth" -> "RuntimeError"

\* The channel count a module expects of its input.
InChannels(m) ==
    CASE m.kind = "SE_ResModule" -> m.block.in_channels
      [] m.kind = "SqueezeExcitationBlock" -> m.block[3].a
      [] m.kind = "Sequential" -> m.stages[1].a
      [] m.kind = "object_classifier" -> backends(m.encoder).stages[1].a
      [] OTHER -> m.in_channels

Init ==
    /\ mod = NoModule
    /\ op = "start"
    /\ args = <<>>
    /\ sargs = <<>>
    /\ exc = "none"
    /\ events = <<>>
    /\ inp = NoTensor
    /\ feat = NoTensor
    /\ out = NoTensor

\* A constructor call that returns module m or raises e.
Constructed(name, a, sa, m, e, ev) ==
    /\ op' = name
    /\ args' = a
    /\ sargs' = sa
    /\ exc' = e
    /\ mod' = IF e = "none" THEN m ELSE NoModule
    /\ events' = ev
    /\ UNCHANGED <<inp, feat, out>>

CtorError(layers) == IF LayersCtorOk(layers) THEN "none" ELSE "ValueError"

NewBasicBlock ==
    /\ op = "start"
    /\ \E cin \in ChanSet, cout \in ChanSet, stride \in Strides :
           Constructed("BasicBlock", <<cin, cout, stride, 1>>, <<>>,
                       BasicBlock(cin, cout, stride, 1), "none", <<>>)

NewBottleneckBlock ==
    /\ op = "start"
    /\ \E cin \in ChanSet, cout \in ChanSet, stride \in Strides,
          groups \in GroupSet, mid \in {None} \cup ChanSet :
           LET b == BottleneckBlock(cin, cout, stride, groups, mid)
           IN Constructed("BottleneckBlock", <<cin, cout, stride, groups, mid>>, <<>>,
                          b, CtorError(BlockLayers(b)), <<>>)

NewResidualBlock ==
    /\ op = "start"
    /\ \E cin \in ChanSet, cout \in ChanSet :
           Constructed("ResidualBlock", <<cin, cout>>, <<>>,
                       ResidualBlock(cin, cout, NoBlock), "none", <<>>)

NewResNeXtBlock ==
    /\ op = "start"
    /\ \E cin \in ChanSet, cout \in ChanSet, cardinality \in Cardinalities :
           LET m == ResNeXtBlock(cin, cout, cardinality)
           IN Constructed("ResNeXtBlock", <<cin, cout, cardinality>>, <<>>,
                          m, CtorError(BlockLayers(m.block)), <<>>)

NewSqueezeExcitationBlock ==
    /\ op = "start"
    /\ \E c \in ChanSet, r \in Ratios :
           LET m == SqueezeExcitationBlock(c, r)
           IN \E e \in SECtorOutcomes(m) :
                 Constructed("SqueezeExcitationBlock", <<c, r>>, <<>>, m, e, <<>>)

\* SE_ResModule(ResidualBlock(cin, cout)) and SE_ResModule(ResNeXtBlock(cin, cout, c))
NewSEResModule ==
    /\ op = "start"
    /\ \E cin \in ChanSet, cout \in ChanSet, cardinality \in {None} \cup Cardinalities :
           LET block == IF cardinality = None
                        THEN ResidualBlock(cin, cout, NoBlock)
                        ELSE ResNeXtBlock(cin, cout, cardinality)
               m == SE_ResModule(block, DefaultRatio)
               inner == CtorError(BlockLayers(block.block))
           IN \E e \in (IF inner = "none" THEN SECtorOutcomes(m.se_block) ELSE {inner}) :
                 Constructed("SE_ResModule", <<cin, cout, cardinality>>, <<>>, m, e, <<>>)

\* Reading one of the module-level stacks of class backends.
UseBackend ==
    /\ op = "start"
    /\ \E name \in BackendNames :
           Constructed("backends", <<>>, <<name>>, backends(name), "none", <<>>)

\* object_classifier.__init__(encoder, decoderFile); "None" is an argument left out.
NewObjectClassifier ==
    /\ op = "start"
    /\ \E encoder \in {"None"} \cup BackendNames, decoderFile \in {"None"} \cup DecoderFiles :
           LET attr == IF encoder # "None" THEN encoder ELSE DefaultEncoderAttr
               found == attr \in BackendNames
               encEv == IF encoder = "None" THEN <<"init_encoder_weights">> ELSE <<>>
               decEv == IF decoderFile = "None" THEN <<"init_decoder_weights">>
                        ELSE IF LoadOutcome(decoderFile) = "none"
                             THEN <<"torch.load", "load_state_dict">>
                             ELSE IF LoadOutcome(decoderFile) = "FileNotFoundError"
                                  THEN <<"torch.load">>
                                  ELSE <<"torch.load", "load_state_dict">>
               e == IF ~found THEN "AttributeError"
                    ELSE IF decoderFile = "None" THEN "none"
                    ELSE LoadOutcome(decoderFile)
           IN Constructed("object_classifier", <<>>, <<encoder, decoderFile>>,
                          ObjectClassifier(attr), e,
                          IF found THEN encEv \o decEv ELSE <<>>)

ModuleForward(m, X) ==
    CASE m.kind = "BasicBlock" -> BlockForward(m, X)
      [] m.kind = "BottleneckBlock" -> BlockForward(m, X)
      [] m.kind = "ResidualBlock" -> ResidualForward(m, X)
      [] m.kind = "ResNeXtBlock" -> ResidualForward(m, X)
      [] m.kind = "SqueezeExcitationBlock" -> SEForward(m, X)
      [] m.kind = "SE_ResModule" -> SEResForward(m, X)
      [] m.kind = "Sequential" -> SequentialForward(m.stages, X)
      [] m.kind = "object_classifier" -> decode(m, encode(m, X))

\* module.forward(X) on an input with the channel count the module expects.
\* A forward pass leaves the module's configuration as it is, so a run makes
\* one call: a second call would start from the same module.
Forward ==
    /\ mod.kind # "None"
    /\ op # "forward"
    /\ \E b \in Batches, h \in Dims, w \in Dims :
          LET X == Tensor(<<b, InChannels(mod), h, w>>)
              r == ModuleForward(mod, X)
          IN /\ inp' = X
             /\ feat' = IF mod.kind = "object_classifier" THEN encode(mod, X) ELSE NoTensor
             /\ out' = r
             /\ exc' = IF r.ok THEN "none" ELSE r.err
    /\ op' = "forward"
    /\ UNCHANGED <<mod, args, sargs, events>>

Next ==
    \/ NewBasicBlock
    \/ NewBottleneckBlock
    \/ NewResidualBlock
    \/ NewResNeXtBlock
    \/ NewSqueezeExcitationBlock
    \/ NewSEResModule
    \/ UseBackend
    \/ NewObjectClassifier
    \/ Forward

Spec == Init /\ [][Next]_vars

\* ---------------------------------------------------------------- properties
CeilDiv(n, d) == (n + d - 1) \div d

Count(seq, x) == Cardinality({i \in 1..Len(seq) : seq[i] = x})

Occurs(seq, x) == \E i \in 1..Len(seq) : seq[i] = x

Linears(layers) == SelectSeq(layers, LAMBDA l : l.kind = "Linear")

\* The primitive layers a stage of a backend is built from.
StageLayers(stage) ==
    CASE stage.kind \in {"ResidualBlock", "ResNeXtBlock"} ->
            BlockLayers(stage.block) \o stage.downsample
      [] stage.kind = "SE_ResModule" ->
            BlockLayers(stage.block.block) \o stage.block.downsample \o stage.se_block.block
      [] OTHER -> <<stage>>

ForwardOf(kind) == op = "forward" /\ mod.kind = kind

\* C1: a ResidualBlock(Cin, Cout) with the default BasicBlock transform maps
\* (B, Cin, H, W) to (B, Cout, H, W) when Cin = Cout and to
\* (B, Cout, ceil(H/2), ceil(W/2)) when Cin # Cout.
C1_ResidualBlockShape ==
    (ForwardOf("ResidualBlock") /\ mod.block.kind = "BasicBlock") =>
        /\ out.ok
        /\ out.shape =
              IF mod.in_channels = mod.out_channels
              THEN <<inp.shape[1], mod.out_channels, inp.shape[3], inp.shape[4]>>
              ELSE <<inp.shape[1], mod.out_channels,
                     CeilDiv(inp.shape[3], 2), CeilDiv(inp.shape[4], 2)>>

C1_Witness ==
    /\ ForwardOf("ResidualBlock")
    /\ mod.in_channels # mod.out_channels
    /\ inp.shape[3] = 3
    /\ inp.shape[4] = 2
    /\ out.ok
    /\ out.shape = <<inp.shape[1], mod.out_channels, 2, 1>>

SeResnetOn224 ==
    /\ ForwardOf("Sequential")
    /\ sargs = <<"se_resnet">>
    /\ inp.shape = <<1, 3, 224, 224>>

\* C2 as stated: (1, 3, 224, 224) through backends.se_resnet yields (1, 512, 7, 7).
C2_Original ==
    SeResnetOn224 => (out.ok /\ out.shape = <<1, 512, 7, 7>>)

\* C2 amended: (1, 3, 224, 224) through backends.se_resnet yields
\* (1, 512, 14, 14): the four widening stages halve 224 to 14 and the
\* 256 -> 256 stage keeps the size.
C2_SeResnetShape ==
    SeResnetOn224 => (out.ok /\ out.shape = <<1, 512, 14, 14>>)

C2_Witness ==
    SeResnetOn224 /\ out.ok /\ Len(out.adds) = 10

\* C3: object_classifier() with no encoder argument completes without error,
\* its encoder is backends.se_resnet and init_encoder_weights has run on it.
C3_DefaultEncoder ==
    (op = "object_classifier" /\ sargs = <<"None", "None">>) =>
        /\ exc = "none"
        /\ mod.kind = "object_classifier"
        /\ mod.encoder = "se_resnet"
        /\ Occurs(events, "init_encoder_weights")

\* C4: with an encoder that yields (B, 512, h, w) - backends.resnet does on
\* every (B, 3, H, W) - object_classifier.forward runs the encoder and then the
\* decoder, ends in the sigmoid and returns shape (B, 1); the decoder's linear
\* widths chain 512 -> 256 -> 128 -> 64 -> 32 -> 1.
C4_ClassifierForward ==
    ForwardOf("object_classifier") =>
        /\ mod.encoder = "resnet" =>
              /\ feat.ok
              /\ Len(feat.shape) = 4
              /\ feat.shape[1] = inp.shape[1]
              /\ feat.shape[2] = 512
              /\ feat.shape[3] >= 1
              /\ feat.shape[4] >= 1
        /\ (feat.ok /\ Len(feat.shape) = 4 /\ feat.shape[2] = 512) =>
              /\ out.ok
              /\ out.shape = <<inp.shape[1], 1>>
              /\ out.trace[Len(out.trace)] = "Sigmoid"
              /\ SubSeq(out.trace, 1, Len(feat.trace)) = feat.trace
              /\ out.trace[Len(feat.trace) + 1] = "decode"
              /\ Count(out.trace, "decode") = 1
              /\ Count(out.trace, "encode") = 1
        /\ LET lin == Linears(mod.decoder)
           IN /\ [i \in 1..Len(lin) |-> lin[i].a] = <<512, 256, 128, 64, 32>>
              /\ \A i \in 1..(Len(lin) - 1) : lin[i].b = lin[i + 1].a
              /\ lin[Len(lin)].b = 1

C4_Witness ==
    /\ ForwardOf("object_classifier")
    /\ mod.encoder = "resnet"
    /\ inp.shape = <<2, 3, 224, 3>>
    /\ feat.shape = <<2, 512, 14, 1>>
    /\ out.ok
    /\ out.shape = <<2, 1>>

\* C5: object_classifier construction initialises the decoder parameters with
\* init_decoder_weights and loads no file when no decoderFile is given; with a
\* decoderFile it loads that file, does not call init_decoder_weights, and a
\* load failure reaches the caller.
C5_DecoderInitOrLoad ==
    op = "object_classifier" =>
        IF sargs[2] = "None"
        THEN /\ Count(events, "init_decoder_weights") = 1
             /\ ~Occurs(events, "torch.load")
        ELSE /\ Count(events, "torch.load") = 1
             /\ ~Occurs(events, "init_decoder_weights")
             /\ LoadOutcome(sargs[2]) # "none" => exc = LoadOutcome(sargs[2])
             /\ LoadOutcome(sargs[2]) = "none" => exc = "none"

\* C6: SqueezeExcitationBlock(in_channels, reduction_ratio) with
\* in_channels // reduction_ratio = 0 fails at construction; no block with a
\* zero-width hidden layer is returned.
C6_ZeroWidthRejected ==
    (op = "SqueezeExcitationBlock" /\ args[1] \div args[2] = 0) =>
        /\ exc # "none"
        /\ mod.kind = "None"

\* C7: SE_ResModule.forward gates the transform output alone (no shortcut add
\* and no ReLU before the gate) and adds the shortcut exactly once.
C7_GateBeforeSingleAdd ==
    (ForwardOf("SE_ResModule") /\ out.ok) =>
        LET gateAt == CHOOSE i \in 1..Len(out.trace) : out.trace[i] = "se_block.forward"
            before == SubSeq(out.trace, 1, gateAt - 1)
        IN /\ ~Occurs(before, "+=")
           /\ ~Occurs(before, "F.relu")
           /\ ~Occurs(before, "downsample")
           /\ Count(out.trace, "+=") = 1
           /\ Len(out.adds) = 1

\* C8: in every stage of every backend the transform path and the shortcut
\* path have the same shape at each add, every convolution stride is >= 1,
\* and the forward pass of a stack of ResNeXtBlock stages gives the shape the
\* stack of ResidualBlock stages gives.
C8_BackendShapesAgree ==
    ForwardOf("Sequential") =>
        /\ \A i \in 1..Len(mod.stages) :
              LET ls == StageLayers(mod.stages[i])
              IN \A j \in 1..Len(ls) : ls[j].kind = "Conv2d" => ls[j].s >= 1
        /\ out.ok
        /\ \A i \in 1..Len(out.adds) : out.adds[i][1] = out.adds[i][2]
        /\ out.shape = SequentialForward(backends_resnet.stages, inp).shape

\* C9: in every BottleneckBlock each batch-norm has the channel count of the
\* convolution before it, and forward maps (B, Cin, H, W) to
\* (B, Cout, ceil(H/stride), ceil(W/stride)).
C9_BottleneckChannels ==
    mod.kind = "BottleneckBlock" =>
        /\ mod.conv1[2].a = mod.conv1[1].b
        /\ mod.conv2[2].a = mod.conv2[1].b
        /\ mod.conv3[2].a = mod.conv3[1].b
        /\ op = "forward" =>
              /\ out.ok
              /\ out.shape = <<inp.shape[1], mod.out_channels,
                               CeilDiv(inp.shape[3], mod.conv2[1].s),
                               CeilDiv(inp.shape[4], mod.conv2[1].s)>>

\* C10: a ResidualBlock or ResNeXtBlock has a downsample path (1x1 convolution
\* of stride 2 from Cin to Cout, then batch-norm) iff Cin # Cout; forward
\* applies it to the shortcut when it exists and adds the unmodified input
\* otherwise; the default transform has stride 2 exactly when it exists.
C10_DownsampleIffWidthChange ==
    mod.kind \in {"ResidualBlock", "ResNeXtBlock"} =>
        /\ mod.has_downsample <=> mod.in_channels # mod.out_channels
        /\ mod.downsample =
              IF mod.has_downsample
              THEN <<Conv2d(mod.in_channels, mod.out_channels, 1, 2, 0, 1),
                     BatchNorm2d(mod.out_channels)>>
              ELSE <<>>
        /\ mod.block.kind = "BasicBlock" =>
              mod.block.conv1[1].s = (IF mod.has_downsample THEN 2 ELSE 1)
        /\ op = "forward" =>
              /\ Count(out.trace, "downsample") = (IF mod.has_downsample THEN 1 ELSE 0)
              /\ Len(out.adds) = 1
              /\ out.adds[1][2] =
                    IF mod.has_downsample
                    THEN <<inp.shape[1], mod.out_channels,
                           CeilDiv(inp.shape[3], 2), CeilDiv(inp.shape[4], 2)>>
                    ELSE inp.shape

====
